---- MODULE Spec2Model ----
(***************************************************************************)
(* Shape-level model of the two model-definition units of the repository:  *)
(*   research/action_recognition/models/lrcnn.py  (LRMobileNetV2, Keras)   *)
(*   research/ssd_pytorch/models/model.py         (SSD300, PyTorch)        *)
(* A tensor is represented by its shape (a tuple of naturals), a layer by  *)
(* a record of its constructor arguments, and a framework call by the      *)
(* shape rule the framework applies to it.                                 *)
(***************************************************************************)
EXTENDS Integers, Sequences, FiniteSets, TLC

VARIABLES pc, lr_args, model, loads, extractor, ssd_args, ssd, x,
          detection_feed, result

vars == <<pc, lr_args, model, loads, extractor, ssd_args, ssd, x,
          detection_feed, result>>

(***************************************************************************)
(* Bounds of the inputs the callers pass.                                  *)
(***************************************************************************)
MaxSeqLength == 3
MaxClasses == 3
MaxBatch == 2
MaxNumLayers == 7

\* frame_shape values (H, W, 3) tried by the callers
FrameShapes == {<<224, 224, 3>>, <<96, 128, 3>>}
\* dropout rates, in percent
DropoutRates == {20, 50}
\* the weights argument: None, 'imagenet', or a path
None == "None"
WeightPaths == {"weights.h5"}
LRWeights == {None, "imagenet"} \cup WeightPaths
SSDWeights == {None} \cup WeightPaths

\* the shape of a tensor that could not be computed (the framework raised)
Err == <<>>

Min(a, b) == IF a < b THEN a ELSE b

RECURSIVE SumSeq(_)
SumSeq(s) == IF s = <<>> THEN 0 ELSE Head(s) + SumSeq(Tail(s))

(***************************************************************************)
(* lrcnn.py                                                                *)
(***************************************************************************)

\* channels of MobileNetV2's last convolution, the size of its pooled output
MobileNetV2OutputDim == 1280

\* MobileNetV2(frame_shape, include_top=False, pooling='avg'): the weights
\* argument is not passed, so the backbone takes the framework's default.
MobileNetV2(input_shape) ==
    [name |-> "mobilenetv2", input_shape |-> input_shape,
     include_top |-> FALSE, pooling |-> "avg", weights |-> "imagenet"]

TimeDistributed(inner, input_shape) ==
    [kind |-> "TimeDistributed", inner |-> inner, input_shape |-> input_shape]
LSTM(units, return_sequences) ==
    [kind |-> "LSTM", units |-> units, return_sequences |-> return_sequences]
GRU(units, return_sequences) ==
    [kind |-> "GRU", units |-> units, return_sequences |-> return_sequences]
Dropout(rate) == [kind |-> "Dropout", rate |-> rate]
Dense(units, activation, name) ==
    [kind |-> "Dense", units |-> units, activation |-> activation,
     name |-> name]

\* the layers LRMobileNetV2 adds, in the order of its model.add calls
LRLayers_LastGRUSequences(seq_length, frame_shape, classes, dropout) ==
    << TimeDistributed(MobileNetV2(frame_shape), <<seq_length>> \o frame_shape),
       LSTM(1024, TRUE), Dropout(dropout),
       GRU(512, TRUE), Dropout(dropout),
       GRU(256, TRUE), Dropout(dropout),
       GRU(128, TRUE), Dropout(dropout),
       Dense(classes, "softmax", "predictions") >>

LRLayers(seq_length, frame_shape, classes, dropout) ==
    << TimeDistributed(MobileNetV2(frame_shape), <<seq_length>> \o frame_shape),
       LSTM(1024, TRUE), Dropout(dropout),
       GRU(512, TRUE), Dropout(dropout),
       GRU(256, TRUE), Dropout(dropout),
       GRU(128, FALSE), Dropout(dropout),
       Dense(classes, "softmax", "predictions") >>

\* the per-sample output shape of a Keras layer applied to per-sample shape s
OutputShape(layer, s) ==
    CASE layer.kind = "TimeDistributed" ->
            \* the inner model runs on every time step; without top and
            \* with average pooling it yields one feature vector per frame
            <<s[1], MobileNetV2OutputDim>>
      [] layer.kind \in {"LSTM", "GRU"} ->
            IF layer.return_sequences THEN <<s[1], layer.units>>
                                      ELSE <<layer.units>>
      [] layer.kind = "Dropout" -> s
      [] layer.kind = "Dense" -> SubSeq(s, 1, Len(s) - 1) \o <<layer.units>>

\* keras.Sequential.add: the first layer carries the input shape
SequentialAdd(m, layer) ==
    LET inp == IF m.layers = <<>> THEN layer.input_shape
               ELSE m.shapes[Len(m.shapes)]
    IN  [layers |-> Append(m.layers, layer),
         input_shape |-> IF m.layers = <<>> THEN layer.input_shape
                         ELSE m.input_shape,
         shapes |-> Append(m.shapes, OutputShape(layer, inp))]

EmptySequential == [layers |-> <<>>, input_shape |-> <<>>, shapes |-> <<>>]

\* line 44: the only test made on the weights argument
ShouldLoadWeights_Always(weights) == TRUE

ShouldLoadWeights(weights) == weights # "imagenet"

\* model = keras.Sequential()
LRMobileNetV2_call ==
    /\ pc = "idle"
    /\ \E s \in 1..MaxSeqLength, f \in FrameShapes, c \in 1..MaxClasses,
          w \in LRWeights, d \in DropoutRates :
          lr_args' = [seq_length |-> s, frame_shape |-> f, classes |-> c,
                      weights |-> w, dropout |-> d]
    /\ model' = EmptySequential
    /\ pc' = "lr_add"
    /\ UNCHANGED <<loads, extractor, ssd_args, ssd, x, detection_feed, result>>

\* one model.add(...) call
LRMobileNetV2_add ==
    /\ pc = "lr_add"
    /\ LET todo == LRLayers(lr_args.seq_length, lr_args.frame_shape,
                            lr_args.classes, lr_args.dropout)
           n == Len(model.layers)
       IN  /\ model' = SequentialAdd(model, todo[n + 1])
           /\ pc' = IF n + 1 = Len(todo) THEN "lr_load" ELSE "lr_add"
    /\ UNCHANGED <<lr_args, loads, extractor, ssd_args, ssd, x,
                   detection_feed, result>>

\* if weights != 'imagenet': model.load_weights(weights)
\* The load of a path succeeds or raises (the file may be missing or may not
\* match); None names no file, so that load raises.
LRMobileNetV2_load ==
    /\ pc = "lr_load"
    /\ \/ /\ ShouldLoadWeights(lr_args.weights)
          /\ loads' = Append(loads, lr_args.weights)
          /\ \/ /\ lr_args.weights # None
                /\ pc' = "lr_loaded"
             \/ pc' = "lr_raised"
       \/ /\ ~ShouldLoadWeights(lr_args.weights)
          /\ loads' = loads
          /\ pc' = "lr_loaded"
    /\ UNCHANGED <<lr_args, model, extractor, ssd_args, ssd, x,
                   detection_feed, result>>

\* return model
LRMobileNetV2_return ==
    /\ pc = "lr_loaded"
    /\ pc' = "lr_returned"
    /\ UNCHANGED <<lr_args, model, loads, extractor, ssd_args, ssd, x,
                   detection_feed, result>>

(***************************************************************************)
(* model.py                                                                *)
(***************************************************************************)

\* nn.Conv2d(in_channels, out_channels, kernel_size, padding, stride)
Conv2d(in_channels, out_channels, kernel_size, padding, stride) ==
    [kind |-> "Conv2d", in_channels |-> in_channels,
     out_channels |-> out_channels, kernel_size |-> kernel_size,
     padding |-> padding, stride |-> stride]
BatchNorm2d(num_features) ==
    [kind |-> "BatchNorm2d", num_features |-> num_features]
ReLU == [kind |-> "ReLU"]
\* one child of mobilenet_v2().features: a 3x3 convolution of the given
\* stride with padding 1 (plus 1x1 convolutions), in_channels -> out_channels
MobileNetV2Block(in_channels, out_channels, stride) ==
    [kind |-> "MobileNetV2Block", in_channels |-> in_channels,
     out_channels |-> out_channels, stride |-> stride]

\* the children of mobilenet_v2(pretrained=True).features
MobileNetV2Features ==
    << MobileNetV2Block(3, 32, 2),
       MobileNetV2Block(32, 16, 1),
       MobileNetV2Block(16, 24, 2), MobileNetV2Block(24, 24, 1),
       MobileNetV2Block(24, 32, 2), MobileNetV2Block(32, 32, 1),
       MobileNetV2Block(32, 32, 1),
       MobileNetV2Block(32, 64, 2), MobileNetV2Block(64, 64, 1),
       MobileNetV2Block(64, 64, 1), MobileNetV2Block(64, 64, 1),
       MobileNetV2Block(64, 96, 1), MobileNetV2Block(96, 96, 1),
       MobileNetV2Block(96, 96, 1),
       MobileNetV2Block(96, 160, 2), MobileNetV2Block(160, 160, 1),
       MobileNetV2Block(160, 160, 1),
       MobileNetV2Block(160, 320, 1),
       MobileNetV2Block(320, 1280, 1) >>

\* the spatial size a convolution produces from size h
ConvOut(h, kernel_size, padding, stride) ==
    ((h + 2 * padding - kernel_size) \div stride) + 1

\* one layer applied to a tensor of shape s = (N, C, H, W); Err when the
\* framework rejects the shape
ApplyLayer(layer, s) ==
    IF s = Err THEN Err
    ELSE CASE layer.kind = "Conv2d" ->
                IF /\ s[2] = layer.in_channels
                   /\ s[3] + 2 * layer.padding >= layer.kernel_size
                   /\ s[4] + 2 * layer.padding >= layer.kernel_size
                THEN <<s[1], layer.out_channels,
                       ConvOut(s[3], layer.kernel_size, layer.padding,
                               layer.stride),
                       ConvOut(s[4], layer.kernel_size, layer.padding,
                               layer.stride)>>
                ELSE Err
           [] layer.kind = "BatchNorm2d" ->
                IF s[2] = layer.num_features THEN s ELSE Err
           [] layer.kind = "ReLU" -> s
           [] layer.kind = "MobileNetV2Block" ->
                IF s[2] = layer.in_channels
                THEN <<s[1], layer.out_channels,
                       ConvOut(s[3], 3, 1, layer.stride),
                       ConvOut(s[4], 3, 1, layer.stride)>>
                ELSE Err

\* nn.Sequential.forward
RECURSIVE ApplySequential(_, _)
ApplySequential(layers, s) ==
    IF layers = <<>> THEN s
    ELSE ApplySequential(Tail(layers), ApplyLayer(Head(layers), s))

\* list(backbone.features.children())[:7]
FeatureExtractorLayers_Slice8 == SubSeq(MobileNetV2Features, 1, 8)

FeatureExtractorLayers == SubSeq(MobileNetV2Features, 1, 7)

\* SSDMobileNetV2FeatureExtractor.__init__
SSDMobileNetV2FeatureExtractor(is_training, num_layers) ==
    [is_training |-> is_training,
     num_layers |-> num_layers,
     feature_extractor |-> FeatureExtractorLayers,
     out_channels |-> <<32, 512, 512, 256, 256, 256>>]

\* the body of the loop of _build_feature_layers, i counted from 0
FeatureBlock_AllStrided(i, input_size, output_size, channels) ==
    << Conv2d(input_size, channels, 1, 0, 1), BatchNorm2d(channels), ReLU,
       Conv2d(channels, output_size, 3, 1, 2), BatchNorm2d(output_size),
       ReLU >>

FeatureBlock(i, input_size, output_size, channels) ==
    IF i < 3
    THEN << Conv2d(input_size, channels, 1, 0, 1), BatchNorm2d(channels), ReLU,
            Conv2d(channels, output_size, 3, 1, 2), BatchNorm2d(output_size),
            ReLU >>
    ELSE << Conv2d(input_size, channels, 1, 0, 1), BatchNorm2d(channels), ReLU,
            Conv2d(channels, output_size, 3, 0, 1), BatchNorm2d(output_size),
            ReLU >>

\* SSD300._build_feature_layers: zip stops with its shortest argument
build_feature_layers(input_size) ==
    LET mid == <<256, 256, 128, 128, 128>>
        n == Min(Len(input_size) - 1, Len(mid))
    IN  [k \in 1..n |->
            FeatureBlock(k - 1, input_size[k], input_size[k + 1], mid[k])]

\* the loc and conf heads built for one (nd, oc) pair of the zip
LocHead(nd, oc) == Conv2d(oc, nd * 4, 3, 1, 1)

ConfHead_FourPerBox(nd, oc, num_classes) == Conv2d(oc, nd * 4, 3, 1, 1)

ConfHead(nd, oc, num_classes) == Conv2d(oc, nd * num_classes, 3, 1, 1)

\* SSD300.__init__, lines 65-88: the module built from backbone and
\* num_classes
SSD300_net(backbone, num_classes) ==
    LET num_defaults == <<4, 6, 6, 6, 4, 4>>
        oc == backbone.out_channels
        n == Min(Len(num_defaults), Len(oc))
    IN  [input_shape |-> <<3, 300, 300>>,
         num_classes |-> num_classes,
         feature_extractor |-> backbone,
         feature_blocks |-> build_feature_layers(oc),
         num_defaults |-> num_defaults,
         loc |-> [k \in 1..n |-> LocHead(num_defaults[k], oc[k])],
         conf |-> [k \in 1..n |->
                      ConfHead(num_defaults[k], oc[k], num_classes)],
         init |-> "xavier_uniform"]

\* SSD300.__init__(backbone, num_classes, weights): the module it builds and
\* the weight files it loads; the body never mentions weights
SSD300_init_LoadsWeights(backbone, num_classes, weights) ==
    [net |-> SSD300_net(backbone, num_classes),
     loads |-> IF weights # None THEN <<weights>> ELSE <<>>]

SSD300_init(backbone, num_classes, weights) ==
    [net |-> SSD300_net(backbone, num_classes), loads |-> <<>>]

\* Tensor.view(n, c, -1) of a tensor of shape s
View(s, n, c) ==
    LET total == s[1] * s[2] * s[3] * s[4]
    IN  IF s = Err \/ total % (n * c) # 0 THEN Err
        ELSE <<n, c, total \div (n * c)>>

\* torch.cat(pieces, 2) of three-dimensional tensors
Cat2(pieces) ==
    IF \/ pieces = <<>>
       \/ \E k \in 1..Len(pieces) : pieces[k] = Err
       \/ \E k \in 1..Len(pieces) :
             pieces[k][1] # pieces[1][1] \/ pieces[k][2] # pieces[1][2]
    THEN Err
    ELSE <<pieces[1][1], pieces[1][2],
           SumSeq([k \in 1..Len(pieces) |-> pieces[k][3]])>>

\* SSD300.bbox_view(src, loc, conf)
bbox_view(src, loc, conf, num_classes) ==
    LET n == Min(Len(src), Min(Len(loc), Len(conf)))
        ret == [k \in 1..n |->
                  IF src[k] = Err THEN <<Err, Err>>
                  ELSE << View(ApplyLayer(loc[k], src[k]), src[k][1], 4),
                          View(ApplyLayer(conf[k], src[k]), src[k][1],
                               num_classes) >>]
        locs == [k \in 1..n |-> ret[k][1]]
        confs == [k \in 1..n |-> ret[k][2]]
    IN  [ret |-> ret, locs |-> Cat2(locs), confs |-> Cat2(confs)]

\* backbone = SSDMobileNetV2FeatureExtractor(is_training, num_layers)
SSDMobileNetV2FeatureExtractor_call ==
    /\ pc = "idle"
    /\ \E t \in BOOLEAN, k \in 1..MaxNumLayers :
          extractor' = SSDMobileNetV2FeatureExtractor(t, k)
    /\ pc' = "extractor_built"
    /\ UNCHANGED <<lr_args, model, loads, ssd_args, ssd, x, detection_feed,
                   result>>

\* SSD300(backbone, num_classes, weights)
SSD300_call ==
    /\ pc = "extractor_built"
    /\ \E c \in 1..MaxClasses, w \in SSDWeights :
          LET r == SSD300_init(extractor, c, w)
          IN  /\ ssd_args' = [num_classes |-> c, weights |-> w]
              /\ ssd' = r.net
              /\ loads' = loads \o r.loads
    /\ pc' = "ssd_built"
    /\ UNCHANGED <<lr_args, model, extractor, x, detection_feed, result>>

\* forward, line 153-155: x = self.feature_extractor(x); detection_feed = [x]
forward_backbone ==
    /\ pc = "ssd_built"
    /\ \E n \in 1..MaxBatch :
          x' = ApplySequential(ssd.feature_extractor.feature_extractor,
                               <<n>> \o ssd.input_shape)
    /\ detection_feed' = <<x'>>
    /\ pc' = IF x' = Err THEN "fwd_raised" ELSE "fwd_blocks"
    /\ UNCHANGED <<lr_args, model, loads, extractor, ssd_args, ssd, result>>

\* forward, lines 156-158: one iteration of the loop over feature_blocks
forward_block ==
    /\ pc = "fwd_blocks"
    /\ Len(detection_feed) <= Len(ssd.feature_blocks)
    /\ x' = ApplySequential(ssd.feature_blocks[Len(detection_feed)], x)
    /\ detection_feed' = Append(detection_feed, x')
    /\ pc' = IF x' = Err THEN "fwd_raised" ELSE "fwd_blocks"
    /\ UNCHANGED <<lr_args, model, loads, extractor, ssd_args, ssd, result>>

\* forward, lines 161-164: bbox_view and return
forward_bbox_view ==
    /\ pc = "fwd_blocks"
    /\ Len(detection_feed) > Len(ssd.feature_blocks)
    /\ result' = bbox_view(detection_feed, ssd.loc, ssd.conf, ssd.num_classes)
    /\ pc' = IF result'.locs = Err \/ result'.confs = Err
             THEN "fwd_raised" ELSE "fwd_done"
    /\ UNCHANGED <<lr_args, model, loads, extractor, ssd_args, ssd, x,
                   detection_feed>>

Init ==
    /\ pc = "idle"
    /\ lr_args = <<>>
    /\ model = EmptySequential
    /\ loads = <<>>
    /\ extractor = <<>>
    /\ ssd_args = <<>>
    /\ ssd = <<>>
    /\ x = Err
    /\ detection_feed = <<>>
    /\ result = <<>>

Next ==
    \/ LRMobileNetV2_call
    \/ LRMobileNetV2_add
    \/ LRMobileNetV2_load
    \/ LRMobileNetV2_return
    \/ SSDMobileNetV2FeatureExtractor_call
    \/ SSD300_call
    \/ forward_backbone
    \/ forward_block
    \/ forward_bbox_view

Spec == Init /\ [][Next]_vars

(***************************************************************************)
(* Properties                                                              *)
(***************************************************************************)
LRStarted == pc \in {"lr_add", "lr_load", "lr_loaded", "lr_returned",
                     "lr_raised"}
ExtractorBuilt == pc \in {"extractor_built", "ssd_built", "fwd_blocks",
                          "fwd_done", "fwd_raised"}
SSDBuilt == pc \in {"ssd_built", "fwd_blocks", "fwd_done", "fwd_raised"}

\* the piece of a concatenation along one axis that column j falls in, the
\* pieces having the given widths; k is the piece the count starts at
RECURSIVE ScaleOfColumn(_, _, _)
ScaleOfColumn(widths, j, k) ==
    IF j <= widths[k] THEN k ELSE ScaleOfColumn(widths, j - widths[k], k + 1)

C2_LRShapes ==
    pc = "lr_returned" =>
       LET s == lr_args.seq_length
       IN  /\ model.input_shape = <<s>> \o lr_args.frame_shape
           /\ model.shapes =
                 << <<s, 1280>>, <<s, 1024>>, <<s, 1024>>, <<s, 512>>,
                    <<s, 512>>, <<s, 256>>, <<s, 256>>, <<128>>, <<128>>,
                    <<lr_args.classes>> >>
           /\ \A k \in 1..Len(model.layers) :
                 model.layers[k].kind = "Dropout" =>
                    model.shapes[k] = model.shapes[k - 1]
           /\ model.layers[Len(model.layers)].name = "predictions"

C2_Witness ==
    /\ pc = "lr_returned"
    /\ lr_args.seq_length = MaxSeqLength
    /\ lr_args.classes = MaxClasses
    /\ lr_args.frame_shape = <<96, 128, 3>>
    /\ model.shapes[Len(model.shapes)] = <<MaxClasses>>

\* C3: a call with weights=None ends with a model whose backbone holds no
\* pretrained ImageNet weights, without any weight-file load having been
\* attempted and without raising.
C3_NoneIsRandomInit ==
    (pc \in {"lr_loaded", "lr_returned", "lr_raised"}
        /\ lr_args.weights = None) =>
       /\ \A k \in 1..Len(model.layers) :
             model.layers[k].kind = "TimeDistributed" =>
                model.layers[k].inner.weights # "imagenet"
       /\ loads = <<>>
       /\ pc # "lr_raised"

\* C4 as written: with a path as weights, load_weights is called exactly
\* once, with that path, only after all nine layers are in the model and
\* before the model is returned; with 'imagenet' it is never called.
C4_LoadAfterNineLayers ==
    LRStarted =>
       /\ loads # <<>> =>
             /\ loads = <<lr_args.weights>>
             /\ pc \in {"lr_loaded", "lr_returned", "lr_raised"}
             /\ Len(model.layers) = 9
       /\ (lr_args.weights \in WeightPaths
              /\ pc \in {"lr_loaded", "lr_returned"}) =>
             loads = <<lr_args.weights>>
       /\ lr_args.weights = "imagenet" => loads = <<>>

\* C4, amended: with a path as weights, load_weights is called exactly once,
\* with that path, only after all ten layers (time-distributed backbone,
\* LSTM, three GRUs, four Dropouts, 'predictions' Dense) are in the model and
\* before the model is returned; with 'imagenet' it is never called.
C4_LoadAfterTenLayers ==
    LRStarted =>
       /\ loads # <<>> =>
             /\ loads = <<lr_args.weights>>
             /\ pc \in {"lr_loaded", "lr_returned", "lr_raised"}
             /\ Len(model.layers) = 10
             /\ [k \in 1..10 |-> model.layers[k].kind] =
                   <<"TimeDistributed", "LSTM", "Dropout", "GRU", "Dropout",
                     "GRU", "Dropout", "GRU", "Dropout", "Dense">>
             /\ model.layers[10].name = "predictions"
       /\ (lr_args.weights \in WeightPaths
              /\ pc \in {"lr_loaded", "lr_returned"}) =>
             loads = <<lr_args.weights>>
       /\ lr_args.weights = "imagenet" => loads = <<>>

C4_Witness ==
    /\ pc = "lr_returned"
    /\ lr_args.weights \in WeightPaths
    /\ loads = <<lr_args.weights>>

\* C5: an extractor built with num_layers = k has k out_channels entries, and
\* an SSD300 on it has k loc heads, k conf heads and k - 1 feature blocks.
C5_NumLayersHeads ==
    /\ ExtractorBuilt => Len(extractor.out_channels) = extractor.num_layers
    /\ SSDBuilt =>
          LET k == ssd.feature_extractor.num_layers
          IN  /\ Len(ssd.loc) = k
              /\ Len(ssd.conf) = k
              /\ Len(ssd.feature_blocks) = k - 1

\* C6: channel counts agree along the forward pass: the backbone output has
\* out_channels[0] = 32 channels, feature block i takes out_channels[i] and
\* yields out_channels[i+1] channels, loc head i and conf head i take
\* out_channels[i] channels, the channel count of the i-th feature map.
C6_ChannelsCompatible ==
    /\ pc # "fwd_raised"
    /\ SSDBuilt =>
          LET oc == ssd.feature_extractor.out_channels
          IN  /\ oc[1] = 32
              /\ Len(ssd.feature_blocks) = 5
              /\ \A i \in 1..5 :
                    LET b == ssd.feature_blocks[i]
                    IN  /\ b[1].in_channels = oc[i]
                        /\ b[2].num_features = b[1].out_channels
                        /\ b[4].in_channels = b[1].out_channels
                        /\ b[4].out_channels = oc[i + 1]
                        /\ b[5].num_features = oc[i + 1]
              /\ Len(ssd.loc) = 6 /\ Len(ssd.conf) = 6
              /\ \A i \in 1..6 : /\ ssd.loc[i].in_channels = oc[i]
                                 /\ ssd.conf[i].in_channels = oc[i]
              /\ \A i \in 1..Len(detection_feed) :
                    detection_feed[i][2] = oc[i]

C6_Witness ==
    /\ pc = "fwd_done"
    /\ Len(detection_feed) = 6
    /\ detection_feed[6][2] = 256
    /\ detection_feed[1][2] = 32

\* C7: detection_feed holds the backbone output followed by the output of
\* each of the five feature blocks, so the zip of bbox_view pairs each of the
\* six maps with one loc and one conf head; at scale i the loc piece and the
\* conf piece are both nd_i * H_i * W_i wide, and every column j of locs and
\* of confs comes from the same scale.
C7_BoxesAligned ==
    pc = "fwd_done" =>
       /\ Len(detection_feed) = 6
       /\ Len(ssd.loc) = 6 /\ Len(ssd.conf) = 6 /\ Len(result.ret) = 6
       /\ detection_feed[1] =
             ApplySequential(ssd.feature_extractor.feature_extractor,
                             <<detection_feed[1][1]>> \o ssd.input_shape)
       /\ \A i \in 1..5 :
             detection_feed[i + 1] =
                ApplySequential(ssd.feature_blocks[i], detection_feed[i])
       /\ \A i \in 1..6 :
             LET w == ssd.num_defaults[i] * detection_feed[i][3]
                         * detection_feed[i][4]
             IN  result.ret[i][1][3] = w /\ result.ret[i][2][3] = w
       /\ result.locs[3] = result.confs[3]
       /\ LET lw == [i \in 1..6 |-> result.ret[i][1][3]]
              cw == [i \in 1..6 |-> result.ret[i][2][3]]
          IN  \A j \in 1..result.locs[3] :
                 ScaleOfColumn(lw, j, 1) = ScaleOfColumn(cw, j, 1)

C7_Witness ==
    /\ pc = "fwd_done"
    /\ Len(result.ret) = 6
    /\ result.ret[2][1][3] = 6 * 19 * 19
    /\ result.ret[2][2][3] = 6 * 19 * 19
    /\ ssd.num_classes > 1

\* C8: the SSD300 constructor does not read weights: whatever weights it is
\* given, it builds the layers it builds for any other weights value, and it
\* loads no weight file.
C8_WeightsIgnored ==
    SSDBuilt =>
       /\ \A w \in SSDWeights :
             SSD300_init(extractor, ssd_args.num_classes, w) =
                [net |-> ssd, loads |-> <<>>]
       /\ loads = <<>>

C8_Witness ==
    /\ pc = "ssd_built"
    /\ ssd_args.weights \in WeightPaths
    /\ Len(ssd.loc) = 6

====
